---------------------------- MODULE Spec2Model ----------------------------
(***************************************************************************)
(* Model of steenroder (src/steenroder/__init__.py): persistent relative   *)
(* cohomology over GF(2) by column reduction with clearing, extraction of  *)
(* the ordinary barcode and of one cocycle per bar, the Steenrod matrix    *)
(* (Sq^k of every representative, built by parallel workers) and the       *)
(* Steenrod barcode read off an augmented reduction.                       *)
(*                                                                         *)
(* Python lists and arrays are sequences; a Python position p is the       *)
(* sequence position p + 1.  Matrix entries, pivots and barcode entries    *)
(* keep the program's 0-based values, with -1 for "none".                  *)
(***************************************************************************)
EXTENDS Integers, Sequences, FiniteSets, TLC

\* Bounds of the explored inputs.
MaxVert == 3
MaxLen == 7
MaxK == 2
MaxJobs == 2
MaxVal == 1
MaxMaxdim == 2

\* Python None for an optional argument; a given value v is <<v>>.
None == <<>>

VARIABLES
    pc,                    \* position in the pipeline of barcodes()
    error,                 \* "none" or the exception that ended the run
    filtration,            \* input: sequence of simplices (sets of vertices)
    maxdim,                \* input of sort_filtration_by_dim: None or an int
    filtration_by_dim,     \* result of sort_filtration_by_dim
    dim,                   \* loop variable of get_reduced_triangular
    rel_idxs_to_clear,     \* pivots of the previous dimension (to clear)
    reduced_prev_dim,
    pivots_lookup_prev_dim,
    spx2idx_dim,           \* per-dimension state of _inner_reduce_single_dim
    reduced_dim,
    triangular_dim,
    pivots_lookup,
    j,                     \* loop variable of _twist_reduction
    cleared_next,          \* the list rel_idxs_to_clear built by _twist_reduction
    spx2idx, idxs, reduced, triangular,  \* results of get_reduced_triangular
    filtration_values,     \* input: None or <<array of one value per simplex>>
    barcode, coho_reps,    \* results of get_barcode_and_coho_reps
    k, n_jobs,             \* inputs: the power of Sq^k, the number of workers
    steenrod_matrix,       \* list built by get_steenrod_matrix
    sm_dim,                \* loop variable dim of get_steenrod_matrix
    slots,                 \* steenrod_matrix_dim_plus_k, filled by the workers
    cursor,                \* per job_idx: its loop variable coho_reps_dim_idx
    writers,               \* per slot: the job_idx of every write, in order
    st_barcode,            \* list built by get_steenrod_barcode
    sb_dim,                \* loop variable dim of get_steenrod_barcode
    st_augmented,          \* locals of _steenrod_barcode_single_dim:
    st_pivots_lookup,      \*   augmented, pivots_lookup, alive, j, i and
    st_alive,              \*   st_barcode_dim
    st_j,
    st_i,
    st_barcode_dim,
    oob,                   \* births_dim[j] was read with j >= len(births_dim)
    absolute, return_filtration_values,   \* inputs of barcodes()
    out_barcode, out_st_barcode           \* the pair barcodes() returns

vars == <<pc, error, filtration, maxdim, filtration_by_dim, dim,
          rel_idxs_to_clear, reduced_prev_dim, pivots_lookup_prev_dim,
          spx2idx_dim, reduced_dim, triangular_dim, pivots_lookup, j,
          cleared_next, spx2idx, idxs, reduced, triangular,
          filtration_values, barcode, coho_reps,
          k, n_jobs, steenrod_matrix, sm_dim, slots, cursor, writers,
          st_barcode, sb_dim, st_augmented, st_pivots_lookup, st_alive, st_j,
          st_i, st_barcode_dim, oob, absolute, return_filtration_values,
          out_barcode, out_st_barcode>>

---------------------------------------------------------------------------
\* Generic helpers for Python sequences.

Min(S) == CHOOSE x \in S : \A y \in S : x <= y

Max(S) == CHOOSE x \in S : \A y \in S : x >= y

RECURSIVE sorted(_)
\* Python sorted() of a finite set of integers: the ascending sequence.
sorted(S) == IF S = {} THEN <<>> ELSE <<Min(S)>> \o sorted(S \ {Min(S)})

SeqToSet(s) == {s[p] : p \in DOMAIN s}

\* s[1:] of a non-empty list
Rest(s) == SubSeq(s, 2, Len(s))

RECURSIVE _symm_diff(_, _)
\* Merge of two ascending lists that drops the common entries.
_symm_diff(x, y) ==
    IF x = <<>> THEN y
    ELSE IF y = <<>> THEN x
    ELSE IF x[1] < y[1] THEN <<x[1]>> \o _symm_diff(Rest(x), y)
    ELSE IF y[1] < x[1] THEN <<y[1]>> \o _symm_diff(x, Rest(y))
    ELSE _symm_diff(Rest(x), Rest(y))

\* The faces of a sorted tuple obtained by deleting one position.
_drop_elements(tup) ==
    {[p \in 1..(Len(tup) - 1) |-> IF p < x THEN tup[p] ELSE tup[p + 1]] :
        x \in 1..Len(tup)}

---------------------------------------------------------------------------
\* The inputs: valid simplex-wise filtrations.

Vertices == 0..(MaxVert - 1)

Simplices == (SUBSET Vertices) \ {{}}

ProperFacets(s) == IF Cardinality(s) = 1 THEN {} ELSE {s \ {v} : v \in s}

\* The simplices that may be appended to f: new, with every facet present.
Addable(f) ==
    {s \in Simplices : s \notin SeqToSet(f) /\ ProperFacets(s) \subseteq SeqToSet(f)}

RECURSIVE FiltrationsOfLen(_)
FiltrationsOfLen(n) ==
    IF n = 0 THEN {<<>>}
    ELSE UNION {{Append(f, s) : s \in Addable(f)} : f \in FiltrationsOfLen(n - 1)}

\* Two larger complexes, in one order each.  The Moebius band on five
\* vertices, its boundary circle first: the smallest input found on which a
\* Steenrod bar is finite.  The full tetrahedron, by dimension: four
\* dimensions chained by clearing.
MoebiusBand ==
    << {0}, {1}, {2}, {3}, {4},
       {0, 2}, {1, 3}, {2, 4}, {0, 3}, {1, 4},
       {0, 1}, {1, 2}, {2, 3}, {3, 4}, {0, 4},
       {0, 1, 2}, {1, 2, 3}, {2, 3, 4}, {0, 3, 4}, {0, 1, 4} >>

Tetrahedron ==
    << {0}, {1}, {2}, {3},
       {0, 1}, {0, 2}, {1, 2}, {0, 3}, {1, 3}, {2, 3},
       {0, 1, 2}, {0, 1, 3}, {0, 2, 3}, {1, 2, 3},
       {0, 1, 2, 3} >>

\* The full tetrahedron with the two edges {0, 1} and {2, 3} first: a
\* representative of degree 1 then holds pairs of disjoint edges, whose
\* union is the 3-simplex.
TetrahedronCrossed ==
    << {0}, {1}, {2}, {3},
       {0, 1}, {2, 3}, {0, 2}, {1, 3}, {0, 3}, {1, 2},
       {0, 1, 2}, {0, 1, 3}, {0, 2, 3}, {1, 2, 3},
       {0, 1, 2, 3} >>

\* Every filtration over MaxVert vertices of at most MaxLen simplices, and
\* the named ones.
Filtrations ==
    UNION {FiltrationsOfLen(n) : n \in 0..MaxLen}
        \cup {MoebiusBand, Tetrahedron, TetrahedronCrossed}

---------------------------------------------------------------------------
\* sort_filtration_by_dim

RECURSIVE PositionsOfDim(_, _, _)
\* The 0-based positions i of the simplices of f of dimension d, ascending
\* (enumerate(filtration) appends them in this order); p is the next position.
PositionsOfDim(f, d, p) ==
    IF p > Len(f) THEN <<>>
    ELSE (IF Cardinality(f[p]) - 1 = d THEN <<p - 1>> ELSE <<>>)
         \o PositionsOfDim(f, d, p + 1)

\* One entry of filtration_by_dim: the list built from zip(*filtr), which is
\* the empty list when the dimension has no simplex and [idxs, tups] otherwise.
FiltrOfDim(f, d) ==
    LET pos == PositionsOfDim(f, d, 1)
    IN  IF pos = <<>> THEN <<>>
        ELSE << pos, [q \in DOMAIN pos |-> sorted(f[pos[q] + 1])] >>

\* Line 42: max() of an empty sequence raises ValueError.
SortRaises(f, md) == md = None /\ f = <<>>

\* The list over the dimensions 0..maxdim (lines 41-55).
sort_filtration_by_dim(f, md) ==
    LET m == IF md = None
             THEN Max({Cardinality(f[p]) : p \in DOMAIN f}) - 1
             ELSE md[1]
    IN  [d1 \in 1..(m + 1) |-> FiltrOfDim(f, d1 - 1)]

---------------------------------------------------------------------------
\* _inner_reduce_single_dim and _twist_reduction

\* spx2idx_dim: simplex tuple -> in-dimension index
Spx2IdxOf(tups) ==
    [t \in SeqToSet(tups) |-> (CHOOSE q \in DOMAIN tups : tups[q] = t) - 1]

\* Lines 109-112: column i lists, ascending, the (d+1)-simplices j having the
\* d-simplex i as a face.
CoboundaryOf(tups, tups_next) ==
    [i1 \in DOMAIN tups |->
        sorted({q - 1 : q \in {q \in DOMAIN tups_next :
                                  tups[i1] \in _drop_elements(tups_next[q])}})]

\* A face of a (d+1)-simplex that is no key of spx2idx_dim (KeyError).
MissingFace(tups, tups_next) ==
    \E q \in DOMAIN tups_next :
        \E face \in _drop_elements(tups_next[q]) : face \notin SeqToSet(tups)

\* Mutant of ApplyClearing: the column after the recorded pivot row is
\* emptied.
ApplyClearingShifted(cob, clear) ==
    [i1 \in DOMAIN cob |-> IF (i1 - 2) \in SeqToSet(clear) THEN <<>> ELSE cob[i1]]

\* Lines 114-115
ApplyClearing(cob, clear) ==
    [i1 \in DOMAIN cob |-> IF (i1 - 1) \in SeqToSet(clear) THEN <<>> ELSE cob[i1]]

\* highest_one = coboundary[j][0] if coboundary[j] else -1
HighestOne(col) == IF col # <<>> THEN col[1] ELSE -1

\* The guard of the while loop of _twist_reduction for a column.  When
\* highest_one is -1 the value read from pivots_lookup[-1] is not used.
MustAdd(col, pl) == HighestOne(col) # -1 /\ pl[HighestOne(col) + 1] # -1

\* Mutant of AddPivotColumn: the triangular column is added like the
\* coboundary column, without the first entries.
AddPivotColumnAlike(cols, j0, pivot_col, drop_first) ==
    [cols EXCEPT ![j0 + 1] =
        _symm_diff(Rest(cols[j0 + 1]), Rest(cols[pivot_col + 1]))]

\* Lines 69-72 for one of the two lists: column j becomes its sum with the
\* pivot column (drop_first is TRUE for the coboundary, whose two first
\* entries are equal, and FALSE for the triangular matrix).
AddPivotColumn(cols, j0, pivot_col, drop_first) ==
    [cols EXCEPT ![j0 + 1] =
        IF drop_first
        THEN _symm_diff(Rest(cols[j0 + 1]), Rest(cols[pivot_col + 1]))
        ELSE _symm_diff(cols[j0 + 1], cols[pivot_col + 1])]

\* Mutant of RecordPivot: the pivot of a reduced column is not recorded.
RecordPivotForgotten(pl, col, j0) == pl

\* Lines 75-76
RecordPivot(pl, col, j0) ==
    IF HighestOne(col) # -1 THEN [pl EXCEPT ![HighestOne(col) + 1] = j0] ELSE pl

\* Line 77
RecordClear(clear, col) ==
    IF HighestOne(col) # -1 THEN Append(clear, HighestOne(col)) ELSE clear

RECURSIVE _twist_reduction(_, _, _)
\* The whole loop of lines 65-77 from column j0 down to 0, as one function
\* of the coboundary: the reduced columns.
_twist_reduction(cob, pl, j0) ==
    IF j0 < 0 THEN cob
    ELSE IF MustAdd(cob[j0 + 1], pl)
    THEN _twist_reduction(
             AddPivotColumn(cob, j0, pl[HighestOne(cob[j0 + 1]) + 1], TRUE),
             pl, j0)
    ELSE _twist_reduction(cob, RecordPivot(pl, cob[j0 + 1], j0), j0 - 1)

\* Mutant of _fix_triangular_after_clearing: the correction of V after
\* clearing is left out.
FixLeftOut(tri, red_prev, clear, pl_prev) == tri

\* Mutant of _fix_triangular_after_clearing: the cleared column of V
\* becomes the index of the pivot column instead of the pivot column.
FixWithColumnIndex(tri, red_prev, clear, pl_prev) ==
    [i1 \in DOMAIN tri |->
        IF (i1 - 1) \in SeqToSet(clear)
        THEN <<pl_prev[(i1 - 1) + 1]>>
        ELSE tri[i1]]

\* Lines 131-136
_fix_triangular_after_clearing(tri, red_prev, clear, pl_prev) ==
    [i1 \in DOMAIN tri |->
        IF (i1 - 1) \in SeqToSet(clear)
        THEN red_prev[pl_prev[(i1 - 1) + 1] + 1]
        ELSE tri[i1]]

maxdim_of == Len(filtration_by_dim) - 1

---------------------------------------------------------------------------
\* get_barcode_and_coho_reps

\* The optional filtration values explored: non-decreasing along the
\* filtration, with values in 0..MaxVal.
ValueArrays(n) ==
    {[p \in 1..n |-> Cardinality({x \in 1..MaxVal : t[x] < p})] :
        t \in [1..MaxVal -> 0..n]}

RECURSIVE ArgSortFrom(_, _)
\* The positions in `left` by ascending key (equal keys by position).
ArgSortFrom(keys, left) ==
    IF left = {} THEN <<>>
    ELSE LET m == Min({keys[q] : q \in left})
             q0 == Min({q \in left : keys[q] = m})
         IN  <<q0>> \o ArgSortFrom(keys, left \ {q0})

Reverse(s) == [q \in DOMAIN s |-> s[Len(s) + 1 - q]]

\* Mutant of _lexsort_barcode: the argsort is not reversed.
LexsortAscending(arr) ==
    ArgSortFrom([q \in DOMAIN arr |-> arr[q][2]], DOMAIN arr)

\* np.argsort(arr[:, 1])[::-1], as sequence positions
_lexsort_barcode(arr) ==
    Reverse(ArgSortFrom([q \in DOMAIN arr |-> arr[q][2]], DOMAIN arr))

\* arr[lexsrt]
Take(arr, lexsrt) == [q \in DOMAIN lexsrt |-> arr[lexsrt[q]]]

\* The in-dimension indices i of the non-empty columns of red_dim, ascending.
NonEmptyCols(red_dim) == sorted({i1 - 1 : i1 \in {q \in DOMAIN red_dim : red_dim[q] # <<>>}})

\* Lines 291 and 329: b = idxs[dim][reduced[dim - 1][i][0]]
BirthOf(ix, red, d, i) == ix[d + 1][red[d][i + 1][1] + 1]

\* Lines 292 and 330: d = idxs[dim - 1][i]
DeathOf(ix, d, i) == ix[d][i + 1]

\* Mutant of KeepsPair: the comparison of the two filtration values is left
\* out.
KeepsPairAlways(fv, b, dth) == TRUE

\* Line 331
KeepsPair(fv, b, dth) == fv = None \/ fv[1][b + 1] # fv[1][dth + 1]

\* Lines 289-295 and 327-334: the columns i of dimension d - 1 whose finite
\* pair is appended (all of them without filtration values).
FinitePairCols(ix, red, fv, d) ==
    sorted({i \in SeqToSet(NonEmptyCols(red[d])) :
               KeepsPair(fv, BirthOf(ix, red, d, i), DeathOf(ix, d, i))})

\* all_birth_indices
AllBirthIndices(ix, red, d) ==
    IF d = 0 THEN {}
    ELSE {BirthOf(ix, red, d, i) : i \in SeqToSet(NonEmptyCols(red[d]))}

\* Mutant of EssentialCols: the test against all_birth_indices is left out.
EssentialColsNoBirthTest(ix, red, d) ==
    sorted({i \in 0..(Len(ix[d + 1]) - 1) : red[d + 1][i + 1] = <<>>})

\* Lines 276-279 and 297-301: the in-dimension indices of the essential bars
EssentialCols(ix, red, d) ==
    sorted({i \in 0..(Len(ix[d + 1]) - 1) :
               /\ ix[d + 1][i + 1] \notin AllBirthIndices(ix, red, d)
               /\ red[d + 1][i + 1] = <<>>})

\* Mutant of PairsDim: a finite pair is appended as [b, d].
PairsDimSwapped(ix, red, fv, d) ==
    LET fin == IF d = 0 THEN <<>> ELSE FinitePairCols(ix, red, fv, d)
        ess == EssentialCols(ix, red, d)
    IN  [q \in DOMAIN fin |->
            <<BirthOf(ix, red, d, fin[q]), DeathOf(ix, d, fin[q])>>]
        \o [q \in DOMAIN ess |-> <<-1, ix[d + 1][ess[q] + 1]>>]

\* pairs_dim before sorting
PairsDim(ix, red, fv, d) ==
    LET fin == IF d = 0 THEN <<>> ELSE FinitePairCols(ix, red, fv, d)
        ess == EssentialCols(ix, red, d)
    IN  [q \in DOMAIN fin |->
            <<DeathOf(ix, d, fin[q]), BirthOf(ix, red, d, fin[q])>>]
        \o [q \in DOMAIN ess |-> <<-1, ix[d + 1][ess[q] + 1]>>]

\* Mutant of CohoRepsDim: the representative of an essential bar is its
\* birth simplex alone instead of the triangular column.
CohoRepsDimBirthOnly(ix, red, tri, fv, d) ==
    LET fin == IF d = 0 THEN <<>> ELSE FinitePairCols(ix, red, fv, d)
        ess == EssentialCols(ix, red, d)
    IN  [q \in DOMAIN fin |-> red[d][fin[q] + 1]]
        \o [q \in DOMAIN ess |-> <<ess[q]>>]

\* coho_reps_dim before sorting
CohoRepsDim(ix, red, tri, fv, d) ==
    LET fin == IF d = 0 THEN <<>> ELSE FinitePairCols(ix, red, fv, d)
        ess == EssentialCols(ix, red, d)
    IN  [q \in DOMAIN fin |-> red[d][fin[q] + 1]]
        \o [q \in DOMAIN ess |-> tri[d + 1][ess[q] + 1]]

\* barcode[d] and coho_reps[d]: both lists reordered by the same lexsrt
BarcodeDim(ix, red, fv, d) ==
    LET pairs_dim == PairsDim(ix, red, fv, d)
    IN  Take(pairs_dim, _lexsort_barcode(pairs_dim))

SortedCohoRepsDim(ix, red, tri, fv, d) ==
    Take(CohoRepsDim(ix, red, tri, fv, d),
         _lexsort_barcode(PairsDim(ix, red, fv, d)))

Unpackable(d) == filtration_by_dim[d + 1] # <<>>

---------------------------------------------------------------------------
\* _populate_steenrod_matrix_single_dim and get_steenrod_matrix

\* tuple.index(v) for a sorted tuple given by its set of entries
IndexIn(S, v) == Cardinality({x \in S : x < v})

\* Mutant of Contributes: the two index sets only have to be singletons,
\* not different ones.
ContributesAnyParity(a, b) ==
    LET u == a \cup b
        a_bar == a \ b
        b_bar == b \ a
        index(v) == (IndexIn(u, v) + IndexIn(a_bar \cup b_bar, v)) % 2
        index_a == {index(v) : v \in a_bar}
        index_b == {index(v) : v \in b_bar}
    IN  Cardinality(index_a) = 1 /\ Cardinality(index_b) = 1

\* Lines 390-406: the parity rule for the simplices a and b (vertex sets).
Contributes(a, b) ==
    LET u == a \cup b
        a_bar == a \ b
        b_bar == b \ a
        index(v) == (IndexIn(u, v) + IndexIn(a_bar \cup b_bar, v)) % 2
        index_a == {index(v) : v \in a_bar}
        index_b == {index(v) : v \in b_bar}
    IN  \/ index_a = {0} /\ index_b = {1}
        \/ index_a = {1} /\ index_b = {0}

\* Lines 374-410 (STSQ): the Steenrod image of one representative, as the
\* sorted list of the indices of the simplices toggled an odd number of times.
StSq(rep, tups_dim, spx2idx_dim_plus_k, length) ==
    LET cocycle == [q \in DOMAIN rep |-> SeqToSet(tups_dim[rep[q] + 1])]
        hits == {pr \in (DOMAIN rep) \X (DOMAIN rep) :
                    /\ pr[1] < pr[2]
                    /\ Cardinality(cocycle[pr[1]] \cup cocycle[pr[2]]) = length
                    /\ sorted(cocycle[pr[1]] \cup cocycle[pr[2]])
                          \in DOMAIN spx2idx_dim_plus_k
                    /\ Contributes(cocycle[pr[1]], cocycle[pr[2]])}
        cochain == {u \in {cocycle[pr[1]] \cup cocycle[pr[2]] : pr \in hits} :
                       Cardinality({pr \in hits :
                           cocycle[pr[1]] \cup cocycle[pr[2]] = u}) % 2 = 1}
    IN  sorted({spx2idx_dim_plus_k[sorted(u)] : u \in cochain})

\* Line 373: range(job_idx, len(coho_reps_dim), n_jobs), as the first value
\* and the step of the loop variable.
FirstIdx(job_idx) == job_idx

\* Mutant of NextIdx: the stride of the worker's loop is 1.
NextIdxUnitStride(idx, nj) == idx + 1

NextIdx(idx, nj) == idx + nj

\* coho_reps[:-k]: the number of dimensions get_steenrod_matrix loops over
\* (coho_reps[:-0] is coho_reps[:0], the empty list)
NumSourceDims(reps, kk) ==
    IF kk = 0 THEN 0
    ELSE IF Len(reps) - kk > 0 THEN Len(reps) - kk ELSE 0

---------------------------------------------------------------------------
\* _steenrod_barcode_single_dim and get_steenrod_barcode

RECURSIVE ReduceStCol(_, _, _)
\* Lines 495-501: the while loop on one column of the Steenrod part.
ReduceStCol(col, aug, pl) ==
    IF MustAdd(col, pl)
    THEN ReduceStCol(_symm_diff(Rest(col), Rest(aug[pl[HighestOne(col) + 1] + 1])),
                     aug, pl)
    ELSE col

RECURSIVE StColumns(_, _, _, _, _, _)
\* Lines 494-509: the loop over the columns ii = n .. hi - 1.  st holds
\* augmented, pivots_lookup, alive, st_barcode_dim and
\* pivot_column_idxs_from_steenrod.
StColumns(st, ii, hi, idx, births_dim, n) ==
    IF ii >= hi THEN st
    ELSE
        LET col == ReduceStCol(st.aug[ii + 1], st.aug, st.pl)
            highest_one == HighestOne(col)
            aug2 == [st.aug EXCEPT ![ii + 1] = col]
            st2 ==
              IF highest_one # -1
              THEN [st EXCEPT !.aug = aug2,
                              !.pl = [st.pl EXCEPT ![highest_one + 1] = ii],
                              !.pivs = st.pivs \cup {highest_one}]
              ELSE IF st.alive[ii - n + 1]
              THEN [st EXCEPT !.aug = aug2,
                              !.alive = [st.alive EXCEPT ![ii - n + 1] = FALSE],
                              !.bars = IF idx < births_dim[ii - n + 1]
                                       THEN Append(st.bars,
                                                   <<idx, births_dim[ii - n + 1]>>)
                                       ELSE st.bars]
              ELSE [st EXCEPT !.aug = aug2]
        IN  StColumns(st2, ii + 1, hi, idx, births_dim, n)

\* Column 1 of an array of pairs: barcode[dim - k][:, 1]
Births(pairs) == [q \in DOMAIN pairs |-> pairs[q][2]]

\* Lines 515-517
EssentialStBars(alive, births_dim) ==
    LET ess == sorted({q \in DOMAIN alive : alive[q]})
    IN  [q \in DOMAIN ess |-> <<-1, births_dim[ess[q]]>>]

RECURSIVE SelectSeq2(_, _, _)
\* The entries of s from position p on that the mask keeps: arr[mask]
SelectSeq2(s, mask, p) ==
    IF p > Len(s) THEN <<>>
    ELSE (IF mask[p] THEN <<s[p]>> ELSE <<>>) \o SelectSeq2(s, mask, p + 1)

\* Lines 569-576 and 593-595
nontrivial_bars(barcode_dim, fv) ==
    [q \in DOMAIN barcode_dim |->
        \/ barcode_dim[q][1] = -1
        \/ fv[1][barcode_dim[q][1] + 1] # fv[1][barcode_dim[q][2] + 1]]

FilterStBars(barcode_dim, fv) ==
    IF fv = None THEN barcode_dim
    ELSE SelectSeq2(barcode_dim, nontrivial_bars(barcode_dim, fv), 1)

---------------------------------------------------------------------------
\* barcodes(): the conversions of the two barcodes (lines 693-709).  An
\* entry of a returned pair is <<"index", n>>, <<"value", v>>, <<"+inf", 0>>
\* or <<"-inf", 0>>.  The filtration values are a float array, so that the
\* infinities are representable.

Idx(n) == <<"index", n>>

Val(fv, g) == <<"value", fv[1][g + 1]>>

PlusInf == <<"+inf", 0>>

MinusInf == <<"-inf", 0>>

EssentialOf(pairs) == SelectSeq2(pairs, [q \in DOMAIN pairs |-> pairs[q][1] = -1], 1)

FiniteOf(pairs) == SelectSeq2(pairs, [q \in DOMAIN pairs |-> pairs[q][1] # -1], 1)

\* Line 724 / 736: abs_barcode[dim - 1] for dim = 0 is abs_barcode[-1] of
\* an empty list (IndexError).
AbsoluteRaises(rel_barcode) ==
    rel_barcode # <<>> /\ FiniteOf(rel_barcode[1]) # <<>>

\* Lines 712-742
_to_absolute_barcode(rel_barcode, fv, rfv) ==
    [d1 \in DOMAIN rel_barcode |->
        LET ess == EssentialOf(rel_barcode[d1])
            fin == IF d1 + 1 \in DOMAIN rel_barcode
                   THEN FiniteOf(rel_barcode[d1 + 1]) ELSE <<>>
        IN  IF (~rfv) \/ fv = None
            THEN [q \in DOMAIN ess |-> <<Idx(ess[q][2]), Idx(-1)>>]
                 \o [q \in DOMAIN fin |-> <<Idx(fin[q][1]), Idx(fin[q][2])>>]
            ELSE [q \in DOMAIN ess |-> <<Val(fv, ess[q][2]), PlusInf>>]
                 \o [q \in DOMAIN fin |->
                        <<Val(fv, fin[q][1]), Val(fv, fin[q][2])>>]]

\* Lines 745-763
_to_values_barcode(bc, fv) ==
    [d1 \in DOMAIN bc |->
        [q \in DOMAIN bc[d1] |->
            IF bc[d1][q][1] = -1
            THEN <<MinusInf, Val(fv, bc[d1][q][2])>>
            ELSE <<Val(fv, bc[d1][q][1]), Val(fv, bc[d1][q][2])>>]]

\* The index arrays returned as they are
AsIndices(bc) ==
    [d1 \in DOMAIN bc |->
        [q \in DOMAIN bc[d1] |-> <<Idx(bc[d1][q][1]), Idx(bc[d1][q][2])>>]]

\* Lines 693-709
Converted(bc, fv, ab, rfv) ==
    IF ab THEN _to_absolute_barcode(bc, fv, rfv)
    ELSE IF rfv /\ fv # None THEN _to_values_barcode(bc, fv)
    ELSE AsIndices(bc)

---------------------------------------------------------------------------
Init ==
    /\ filtration \in Filtrations
    /\ pc = "start"
    /\ error = "none"
    /\ maxdim = None
    /\ filtration_by_dim = <<>>
    /\ dim = 0
    /\ rel_idxs_to_clear = <<>>
    /\ reduced_prev_dim = <<>>
    /\ pivots_lookup_prev_dim = <<>>
    /\ spx2idx_dim = <<>>
    /\ reduced_dim = <<>>
    /\ triangular_dim = <<>>
    /\ pivots_lookup = <<>>
    /\ j = -1
    /\ cleared_next = <<>>
    /\ spx2idx = <<>>
    /\ idxs = <<>>
    /\ reduced = <<>>
    /\ triangular = <<>>
    /\ filtration_values = None
    /\ barcode = <<>>
    /\ coho_reps = <<>>
    /\ k = 1
    /\ n_jobs = 1
    /\ steenrod_matrix = <<>>
    /\ sm_dim = 0
    /\ slots = <<>>
    /\ cursor = <<>>
    /\ writers = <<>>
    /\ st_barcode = <<>>
    /\ sb_dim = 0
    /\ st_augmented = <<>>
    /\ st_pivots_lookup = <<>>
    /\ st_alive = <<>>
    /\ st_j = 0
    /\ st_i = 0
    /\ st_barcode_dim = <<>>
    /\ oob = FALSE
    /\ absolute = FALSE
    /\ return_filtration_values = FALSE
    /\ out_barcode = <<>>
    /\ out_st_barcode = <<>>

barcode_vars == <<filtration_values, barcode, coho_reps>>

matrix_vars == <<k, n_jobs, steenrod_matrix, sm_dim, slots, cursor, writers>>

st_vars == <<st_barcode, sb_dim, st_augmented, st_pivots_lookup, st_alive,
             st_j, st_i, st_barcode_dim, oob>>

out_vars == <<absolute, return_filtration_values, out_barcode, out_st_barcode>>

reduction_vars == <<dim, rel_idxs_to_clear, reduced_prev_dim,
                    pivots_lookup_prev_dim, spx2idx_dim, reduced_dim,
                    triangular_dim, pivots_lookup, j, cleared_next,
                    spx2idx, idxs, reduced, triangular>>

\* barcodes(), line 670
SortFiltration ==
    /\ pc = "start"
    /\ \E md \in {None} \cup {<<m>> : m \in 0..MaxMaxdim} :
        /\ maxdim' = md
        /\ IF SortRaises(filtration, md)
           THEN /\ pc' = "error"
                /\ error' = "ValueError"
                /\ UNCHANGED filtration_by_dim
           ELSE /\ pc' = "reduce"
                /\ filtration_by_dim' = sort_filtration_by_dim(filtration, md)
                /\ UNCHANGED error
    /\ UNCHANGED <<filtration, filtration_values, barcode, coho_reps>>
    /\ UNCHANGED matrix_vars
    /\ UNCHANGED st_vars
    /\ UNCHANGED out_vars
    /\ UNCHANGED reduction_vars

\* get_reduced_triangular, lines 186-196 with _inner_reduce_single_dim up to
\* the call of _twist_reduction (lines 97-117).
ReduceDim ==
    /\ pc = "reduce"
    /\ dim < maxdim_of
    /\ IF ~Unpackable(dim) \/ ~Unpackable(dim + 1)
       THEN /\ pc' = "error"
            /\ error' = "ValueError"
            /\ UNCHANGED <<spx2idx_dim, reduced_dim, triangular_dim,
                           pivots_lookup, j, cleared_next>>
       ELSE LET tups_dim == filtration_by_dim[dim + 1][2]
                tups_next_dim == filtration_by_dim[dim + 2][2]
            IN  IF MissingFace(tups_dim, tups_next_dim)
                THEN /\ pc' = "error"
                     /\ error' = "KeyError"
                     /\ UNCHANGED <<spx2idx_dim, reduced_dim, triangular_dim,
                                    pivots_lookup, j, cleared_next>>
                ELSE /\ pc' = "twist"
                     /\ spx2idx_dim' = Spx2IdxOf(tups_dim)
                     /\ reduced_dim' =
                          ApplyClearing(CoboundaryOf(tups_dim, tups_next_dim),
                                        rel_idxs_to_clear)
                     /\ triangular_dim' = [i1 \in DOMAIN tups_dim |-> <<i1 - 1>>]
                     /\ pivots_lookup' = [r1 \in DOMAIN tups_next_dim |-> -1]
                     /\ j' = Len(tups_dim) - 1
                     /\ cleared_next' = <<>>
                     /\ UNCHANGED error
    /\ UNCHANGED <<filtration, maxdim, filtration_by_dim, dim,
                   rel_idxs_to_clear, reduced_prev_dim, pivots_lookup_prev_dim,
                   spx2idx, idxs, reduced, triangular,
                   filtration_values, barcode, coho_reps>>
    /\ UNCHANGED matrix_vars
    /\ UNCHANGED st_vars
    /\ UNCHANGED out_vars

\* _twist_reduction, one iteration of the while loop (lines 68-74)
TwistAdd ==
    /\ pc = "twist"
    /\ j >= 0
    /\ MustAdd(reduced_dim[j + 1], pivots_lookup)
    /\ LET pivot_col == pivots_lookup[HighestOne(reduced_dim[j + 1]) + 1]
       IN  /\ reduced_dim' = AddPivotColumn(reduced_dim, j, pivot_col, TRUE)
           /\ triangular_dim' = AddPivotColumn(triangular_dim, j, pivot_col, FALSE)
    /\ UNCHANGED <<pc, error, filtration, maxdim, filtration_by_dim, dim,
                   rel_idxs_to_clear, reduced_prev_dim, pivots_lookup_prev_dim,
                   spx2idx_dim, pivots_lookup, j, cleared_next,
                   spx2idx, idxs, reduced, triangular,
                   filtration_values, barcode, coho_reps>>
    /\ UNCHANGED matrix_vars
    /\ UNCHANGED st_vars
    /\ UNCHANGED out_vars

\* _twist_reduction, the end of the iteration for column j (lines 75-77)
TwistRecord ==
    /\ pc = "twist"
    /\ j >= 0
    /\ ~MustAdd(reduced_dim[j + 1], pivots_lookup)
    /\ pivots_lookup' = RecordPivot(pivots_lookup, reduced_dim[j + 1], j)
    /\ cleared_next' = RecordClear(cleared_next, reduced_dim[j + 1])
    /\ j' = j - 1
    /\ UNCHANGED <<pc, error, filtration, maxdim, filtration_by_dim, dim,
                   rel_idxs_to_clear, reduced_prev_dim, pivots_lookup_prev_dim,
                   spx2idx_dim, reduced_dim, triangular_dim,
                   spx2idx, idxs, reduced, triangular,
                   filtration_values, barcode, coho_reps>>
    /\ UNCHANGED matrix_vars
    /\ UNCHANGED st_vars
    /\ UNCHANGED out_vars

\* Return of _twist_reduction and of _inner_reduce_single_dim, then
\* get_reduced_triangular lines 197-207.
FixAndNextDim ==
    /\ pc = "twist"
    /\ j = -1
    /\ LET fixed == _fix_triangular_after_clearing(
                        triangular_dim, reduced_prev_dim,
                        rel_idxs_to_clear, pivots_lookup_prev_dim)
       IN  /\ triangular_dim' = fixed
           /\ spx2idx' = Append(spx2idx, spx2idx_dim)
           /\ idxs' = Append(idxs, filtration_by_dim[dim + 1][1])
           /\ reduced' = Append(reduced, reduced_dim)
           /\ triangular' = Append(triangular, fixed)
    /\ rel_idxs_to_clear' = cleared_next
    /\ reduced_prev_dim' = reduced_dim
    /\ pivots_lookup_prev_dim' = pivots_lookup
    /\ dim' = dim + 1
    /\ pc' = "reduce"
    /\ UNCHANGED <<error, filtration, maxdim, filtration_by_dim,
                   spx2idx_dim, reduced_dim, pivots_lookup, j, cleared_next,
                   filtration_values, barcode, coho_reps>>
    /\ UNCHANGED matrix_vars
    /\ UNCHANGED st_vars
    /\ UNCHANGED out_vars

\* get_reduced_triangular, lines 209-222: the top dimension has no next
\* dimension, so its columns stay empty and no reduction runs.
ReduceLast ==
    /\ pc = "reduce"
    /\ dim = maxdim_of
    /\ IF ~Unpackable(dim)
       THEN /\ pc' = "error"
            /\ error' = "ValueError"
            /\ UNCHANGED <<spx2idx_dim, reduced_dim, triangular_dim,
                           pivots_lookup, spx2idx, idxs, reduced, triangular>>
       ELSE LET tups_dim == filtration_by_dim[dim + 1][2]
                tri == [i1 \in DOMAIN tups_dim |-> <<i1 - 1>>]
                red == [i1 \in DOMAIN tups_dim |-> <<>>]
                fixed == _fix_triangular_after_clearing(
                             tri, reduced_prev_dim,
                             rel_idxs_to_clear, pivots_lookup_prev_dim)
            IN  /\ pc' = "reduced"
                /\ spx2idx_dim' = Spx2IdxOf(tups_dim)
                /\ reduced_dim' = red
                /\ triangular_dim' = fixed
                /\ pivots_lookup' = <<>>
                /\ spx2idx' = Append(spx2idx, Spx2IdxOf(tups_dim))
                /\ idxs' = Append(idxs, filtration_by_dim[dim + 1][1])
                /\ reduced' = Append(reduced, red)
                /\ triangular' = Append(triangular, fixed)
                /\ UNCHANGED error
    /\ UNCHANGED <<filtration, maxdim, filtration_by_dim, dim,
                   rel_idxs_to_clear, reduced_prev_dim, pivots_lookup_prev_dim,
                   j, cleared_next, filtration_values, barcode, coho_reps>>
    /\ UNCHANGED matrix_vars
    /\ UNCHANGED st_vars
    /\ UNCHANGED out_vars

\* barcodes(), lines 673-675
GetBarcodeAndCohoReps ==
    /\ pc = "reduced"
    /\ \E fv \in {None} \cup {<<v>> : v \in ValueArrays(Len(filtration))} :
        /\ filtration_values' = fv
        /\ barcode' = [d1 \in DOMAIN idxs |-> BarcodeDim(idxs, reduced, fv, d1 - 1)]
        /\ coho_reps' = [d1 \in DOMAIN idxs |->
                            SortedCohoRepsDim(idxs, reduced, triangular, fv, d1 - 1)]
    /\ pc' = "steenrod_matrix"
    /\ UNCHANGED <<error, filtration, maxdim, filtration_by_dim>>
    /\ UNCHANGED reduction_vars
    /\ UNCHANGED matrix_vars
    /\ UNCHANGED st_vars
    /\ UNCHANGED out_vars

all_but_matrix == <<error, filtration, maxdim, filtration_by_dim, dim,
                    rel_idxs_to_clear, reduced_prev_dim, pivots_lookup_prev_dim,
                    spx2idx_dim, reduced_dim, triangular_dim, pivots_lookup, j,
                    cleared_next, spx2idx, idxs, reduced, triangular,
                    filtration_values, barcode, coho_reps>>

\* barcodes(), line 680, and get_steenrod_matrix, line 455.  No line of
\* barcodes() or of get_steenrod_matrix tests the sign of k; k = 0 is among
\* the values explored.
GetSteenrodMatrix ==
    /\ pc = "steenrod_matrix"
    /\ \E kk \in 0..MaxK : \E nj \in 1..MaxJobs :
        /\ k' = kk
        /\ n_jobs' = nj
        /\ steenrod_matrix' = [q \in 1..kk |-> <<>>]
    /\ sm_dim' = 0
    /\ pc' = "sm_loop"
    /\ UNCHANGED <<slots, cursor, writers>>
    /\ UNCHANGED all_but_matrix
    /\ UNCHANGED st_vars
    /\ UNCHANGED out_vars

\* get_steenrod_matrix, lines 457-465, and _inner up to the prange
\* (lines 365-372): one empty slot per representative, one worker per job_idx.
PopulateStart ==
    /\ pc = "sm_loop"
    /\ sm_dim < NumSourceDims(coho_reps, k)
    /\ slots' = [q \in DOMAIN coho_reps[sm_dim + 1] |-> <<>>]
    /\ writers' = [q \in DOMAIN coho_reps[sm_dim + 1] |-> <<>>]
    /\ cursor' = [w1 \in 1..n_jobs |-> FirstIdx(w1 - 1)]
    /\ pc' = "sm_workers"
    /\ UNCHANGED <<k, n_jobs, steenrod_matrix, sm_dim>>
    /\ UNCHANGED all_but_matrix
    /\ UNCHANGED st_vars
    /\ UNCHANGED out_vars

\* One iteration of the loop of line 373 by the worker job_idx: lines 374-410.
WorkerStep(job_idx) ==
    /\ pc = "sm_workers"
    /\ cursor[job_idx + 1] < Len(coho_reps[sm_dim + 1])
    /\ LET coho_reps_dim_idx == cursor[job_idx + 1]
           image == StSq(coho_reps[sm_dim + 1][coho_reps_dim_idx + 1],
                         filtration_by_dim[sm_dim + 1][2],
                         spx2idx[sm_dim + k + 1],
                         sm_dim + k + 1)
       IN  /\ slots' = [slots EXCEPT ![coho_reps_dim_idx + 1] = image]
           /\ writers' = [writers EXCEPT ![coho_reps_dim_idx + 1] =
                              Append(@, job_idx)]
           /\ cursor' = [cursor EXCEPT ![job_idx + 1] =
                              NextIdx(coho_reps_dim_idx, n_jobs)]
    /\ UNCHANGED <<pc, k, n_jobs, steenrod_matrix, sm_dim>>
    /\ UNCHANGED all_but_matrix
    /\ UNCHANGED st_vars
    /\ UNCHANGED out_vars

\* All workers are past their last index: _inner returns (line 412) and
\* get_steenrod_matrix appends the result (line 466).
PopulateEnd ==
    /\ pc = "sm_workers"
    /\ \A w1 \in DOMAIN cursor : cursor[w1] >= Len(coho_reps[sm_dim + 1])
    /\ steenrod_matrix' = Append(steenrod_matrix, slots)
    /\ sm_dim' = sm_dim + 1
    /\ pc' = "sm_loop"
    /\ UNCHANGED <<k, n_jobs, slots, cursor, writers>>
    /\ UNCHANGED all_but_matrix
    /\ UNCHANGED st_vars
    /\ UNCHANGED out_vars

all_but_st == <<filtration, maxdim, filtration_by_dim, dim,
                rel_idxs_to_clear, reduced_prev_dim, pivots_lookup_prev_dim,
                spx2idx_dim, reduced_dim, triangular_dim, pivots_lookup, j,
                cleared_next, spx2idx, idxs, reduced, triangular,
                filtration_values, barcode, coho_reps,
                k, n_jobs, steenrod_matrix, sm_dim, slots, cursor, writers>>

\* get_steenrod_matrix returns (line 468); barcodes(), line 686, and
\* get_steenrod_barcode, line 578.
GetSteenrodBarcode ==
    /\ pc = "sm_loop"
    /\ sm_dim >= NumSourceDims(coho_reps, k)
    /\ st_barcode' = [q \in 1..k |-> <<>>]
    /\ sb_dim' = k
    /\ pc' = "st_loop"
    /\ UNCHANGED <<st_augmented, st_pivots_lookup, st_alive, st_j, st_i,
                   st_barcode_dim, oob, error>>
    /\ UNCHANGED all_but_st
    /\ UNCHANGED out_vars

\* get_steenrod_barcode, lines 579-588, and _steenrod_barcode_single_dim,
\* lines 475-486.
StBarcodeDimStart ==
    /\ pc = "st_loop"
    /\ sb_dim < Len(steenrod_matrix)
    /\ st_augmented' = reduced[sb_dim] \o steenrod_matrix[sb_dim + 1]
    /\ st_pivots_lookup' = [r1 \in DOMAIN idxs[sb_dim + 1] |-> -1]
    /\ st_alive' = [q \in DOMAIN barcode[sb_dim - k + 1] |-> TRUE]
    /\ st_j' = 0
    /\ st_i' = 0
    /\ st_barcode_dim' = <<>>
    /\ pc' = "st_steps"
    /\ UNCHANGED <<st_barcode, sb_dim, oob, error>>
    /\ UNCHANGED all_but_st
    /\ UNCHANGED out_vars

\* One iteration of the loop of line 487 (lines 488-513).  births_dim is a
\* numpy array read without bounds check: read at a position past its end,
\* the comparison with idx may come out either way.  augmented is a list,
\* whose index past the end raises IndexError.
StStep ==
    /\ pc = "st_steps"
    /\ st_i < Len(idxs[sb_dim])
    /\ LET n == Len(idxs[sb_dim])
           births_dim == Births(barcode[sb_dim - k + 1])
           col == n - 1 - st_i
           idx == idxs[sb_dim][col + 1]
           pl1 == IF st_augmented[col + 1] # <<>>
                  THEN [st_pivots_lookup EXCEPT ![st_augmented[col + 1][1] + 1] = col]
                  ELSE st_pivots_lookup
           in_bounds == st_j < Len(births_dim)
       IN  \E eq \in BOOLEAN :
             /\ in_bounds => (eq <=> births_dim[st_j + 1] = idx)
             /\ oob' = (oob \/ ~in_bounds)
             /\ LET j2 == IF eq THEN st_j + 1 ELSE st_j
                IN  IF n + j2 > Len(st_augmented)
                    THEN /\ pc' = "error"
                         /\ error' = "IndexError"
                         /\ UNCHANGED <<st_augmented, st_pivots_lookup, st_alive,
                                        st_j, st_i, st_barcode_dim>>
                    ELSE LET r == StColumns([aug |-> st_augmented, pl |-> pl1,
                                             alive |-> st_alive,
                                             bars |-> st_barcode_dim, pivs |-> {}],
                                            n, n + j2, idx, births_dim, n)
                         IN  /\ st_augmented' = r.aug
                             /\ st_pivots_lookup' =
                                  [r1 \in DOMAIN r.pl |->
                                      IF (r1 - 1) \in r.pivs THEN -1 ELSE r.pl[r1]]
                             /\ st_alive' = r.alive
                             /\ st_barcode_dim' = r.bars
                             /\ st_j' = j2
                             /\ st_i' = st_i + 1
                             /\ UNCHANGED <<pc, error>>
    /\ UNCHANGED <<st_barcode, sb_dim>>
    /\ UNCHANGED all_but_st
    /\ UNCHANGED out_vars

\* _steenrod_barcode_single_dim, lines 515-519, and get_steenrod_barcode,
\* lines 591-596.
StBarcodeDimEnd ==
    /\ pc = "st_steps"
    /\ st_i = Len(idxs[sb_dim])
    /\ st_barcode' =
          Append(st_barcode,
                 FilterStBars(st_barcode_dim
                                \o EssentialStBars(st_alive,
                                                   Births(barcode[sb_dim - k + 1])),
                              filtration_values))
    /\ sb_dim' = sb_dim + 1
    /\ pc' = "st_loop"
    /\ UNCHANGED <<st_augmented, st_pivots_lookup, st_alive, st_j, st_i,
                   st_barcode_dim, oob, error>>
    /\ UNCHANGED all_but_st
    /\ UNCHANGED out_vars

\* get_steenrod_barcode returns (line 598); barcodes(), lines 693-709.
Finish ==
    /\ pc = "st_loop"
    /\ sb_dim >= Len(steenrod_matrix)
    /\ \E ab \in BOOLEAN : \E rfv \in BOOLEAN :
        /\ absolute' = ab
        /\ return_filtration_values' = rfv
        /\ IF ab /\ (AbsoluteRaises(barcode) \/ AbsoluteRaises(st_barcode))
           THEN /\ pc' = "error"
                /\ error' = "IndexError"
                /\ UNCHANGED <<out_barcode, out_st_barcode>>
           ELSE /\ pc' = "done"
                /\ out_barcode' = Converted(barcode, filtration_values, ab, rfv)
                /\ out_st_barcode' =
                      Converted(st_barcode, filtration_values, ab, rfv)
                /\ UNCHANGED error
    /\ UNCHANGED st_vars
    /\ UNCHANGED all_but_st

Next ==
    \/ GetSteenrodBarcode
    \/ StBarcodeDimStart
    \/ StStep
    \/ StBarcodeDimEnd
    \/ Finish
    \/ GetSteenrodMatrix
    \/ PopulateStart
    \/ \E job_idx \in 0..(MaxJobs - 1) : job_idx < n_jobs /\ WorkerStep(job_idx)
    \/ PopulateEnd
    \/ GetBarcodeAndCohoReps
    \/ SortFiltration
    \/ ReduceDim
    \/ TwistAdd
    \/ TwistRecord
    \/ FixAndNextDim
    \/ ReduceLast

Spec == Init /\ [][Next]_vars

---------------------------------------------------------------------------
\* Notions shared by the properties.

\* get_reduced_triangular has just returned its four tuples; no later
\* step assigns them.
GotReducedTriangular == pc = "reduced"

\* get_barcode_and_coho_reps has just returned; no later step assigns
\* barcode or coho_reps.
GotBarcode == pc = "steenrod_matrix"

Dims == 0..(Len(reduced) - 1)

\* The coboundary matrix D of dimension d as built from the filtration,
\* before any clearing; the top dimension has no rows.
OriginalCoboundary(d) ==
    IF d + 1 < Len(filtration_by_dim)
    THEN CoboundaryOf(filtration_by_dim[d + 1][2], filtration_by_dim[d + 2][2])
    ELSE [i1 \in DOMAIN filtration_by_dim[d + 1][2] |-> <<>>]

\* The GF(2) sum of the columns of D listed in v: the rows that lie in an
\* odd number of them.
Gf2Sum(D, v) ==
    {r \in UNION {SeqToSet(D[c + 1]) : c \in SeqToSet(v)} :
        Cardinality({c \in SeqToSet(v) : r \in SeqToSet(D[c + 1])}) % 2 = 1}

StrictlyAscending(col) == \A q \in 1..(Len(col) - 1) : col[q] < col[q + 1]

\* The columns of dimension d emptied by clearing: the pivot rows of
\* dimension d - 1.
ClearedCols(d) ==
    IF d = 0 THEN {}
    ELSE {HighestOne(reduced[d][c1]) : c1 \in DOMAIN reduced[d]} \ {-1}

\* C1: once get_reduced_triangular has returned, every column i of
\* reduced[d] is the GF(2) sum of the original coboundary columns listed in
\* triangular[d][i] (R = D V), in every dimension, cleared columns included.
C1_ReductionIdentity ==
    GotReducedTriangular =>
        \A d \in Dims : \A i1 \in DOMAIN reduced[d + 1] :
            /\ StrictlyAscending(reduced[d + 1][i1])
            /\ SeqToSet(reduced[d + 1][i1])
                 = Gf2Sum(OriginalCoboundary(d), triangular[d + 1][i1])

\* A cleared column with cofaces was patched with a column of several entries.
C1_Witness ==
    /\ GotReducedTriangular
    /\ \E d \in Dims : \E i \in ClearedCols(d) :
          /\ OriginalCoboundary(d)[i + 1] # <<>>
          /\ Len(triangular[d + 1][i + 1]) > 1

\* C2: in every returned reduced matrix the non-empty columns have pairwise
\* distinct first entries, and at every step of _twist_reduction a row's
\* pivot_lookup entry is the only processed column starting at that row.
C2_PivotsDistinct ==
    /\ GotReducedTriangular =>
          \A d \in Dims : \A a, b \in DOMAIN reduced[d + 1] :
              (a # b /\ reduced[d + 1][a] # <<>> /\ reduced[d + 1][b] # <<>>)
                  => reduced[d + 1][a][1] # reduced[d + 1][b][1]
    /\ pc = "twist" =>
          /\ \A r1 \in DOMAIN pivots_lookup :
                pivots_lookup[r1] # -1 =>
                    /\ pivots_lookup[r1] > j
                    /\ HighestOne(reduced_dim[pivots_lookup[r1] + 1]) = r1 - 1
          /\ \A c \in (j + 1)..(Len(reduced_dim) - 1) :
                reduced_dim[c + 1] # <<>> =>
                    pivots_lookup[reduced_dim[c + 1][1] + 1] = c

\* A reduction in which a column was added to another one and two pivots
\* are recorded.
C2_Witness ==
    /\ pc = "twist"
    /\ Cardinality({r1 \in DOMAIN pivots_lookup : pivots_lookup[r1] # -1}) >= 2
    /\ \E c1 \in DOMAIN triangular_dim : Len(triangular_dim[c1]) > 1

\* The number of entries of the barcode equal to the filtration index g.
Occurrences(g) ==
    Cardinality({<<d1, q, side>> \in
                    UNION {{<<d1, q, side>> : q \in DOMAIN barcode[d1], side \in {1, 2}} :
                              d1 \in DOMAIN barcode} :
                    barcode[d1][q][side] = g})

KeptIndices == UNION {SeqToSet(idxs[d1]) : d1 \in DOMAIN idxs}

\* C3: without filtration values, every filtration index of a simplex of
\* dimension <= maxdim occurs exactly once in the ordinary barcode.
C3_BarcodePartition ==
    (GotBarcode /\ filtration_values = None) =>
        \A g \in KeptIndices : Occurrences(g) = 1

\* A barcode with a finite bar whose birth column was cleared, and an
\* essential bar above dimension 0.
C3_Witness ==
    /\ GotBarcode
    /\ filtration_values = None
    /\ \E d1 \in DOMAIN barcode : \E q \in DOMAIN barcode[d1] :
          barcode[d1][q][1] # -1
    /\ \E d1 \in DOMAIN barcode : \E q \in DOMAIN barcode[d1] :
          d1 > 1 /\ barcode[d1][q][1] = -1

\* The reduction of every dimension without clearing: the same loop on the
\* full coboundary matrix.
UnclearedReduced ==
    [d1 \in DOMAIN reduced |->
        LET D == OriginalCoboundary(d1 - 1)
            rows == IF d1 < Len(filtration_by_dim)
                    THEN Len(filtration_by_dim[d1 + 1][2]) ELSE 0
        IN  _twist_reduction(D, [r1 \in 1..rows |-> -1], Len(D) - 1)]

\* C4: in every dimension the ordinary barcode equals the barcode read off
\* the reduction run without clearing.
C4_ClearingAgrees ==
    GotBarcode =>
        \A d \in Dims :
            barcode[d + 1] = BarcodeDim(idxs, UnclearedReduced, filtration_values, d)

\* Clearing emptied a column that had cofaces.
C4_Witness ==
    /\ GotBarcode
    /\ \E d \in Dims : \E i \in ClearedCols(d) : OriginalCoboundary(d)[i + 1] # <<>>

\* C5: every column i of every returned triangular[d] is non-empty and
\* contains i.
C5_UnitDiagonal ==
    GotReducedTriangular =>
        \A d \in Dims : \A i1 \in DOMAIN triangular[d + 1] :
            /\ triangular[d + 1][i1] # <<>>
            /\ (i1 - 1) \in SeqToSet(triangular[d + 1][i1])

\* A triangular column was overwritten by a reduced column of the previous
\* dimension with several entries.
C5_Witness ==
    /\ GotReducedTriangular
    /\ \E d \in Dims : \E i \in ClearedCols(d) :
          /\ Len(triangular[d + 1][i + 1]) > 1
          /\ \E c1 \in DOMAIN reduced[d] : triangular[d + 1][i + 1] = reduced[d][c1]

\* C6: every finite bar (death, birth) has death index < birth index.
C6_DeathBeforeBirth ==
    GotBarcode =>
        \A d1 \in DOMAIN barcode : \A q \in DOMAIN barcode[d1] :
            barcode[d1][q][1] # -1 => barcode[d1][q][1] < barcode[d1][q][2]

\* A finite bar whose column was reduced by adding another column.
C6_Witness ==
    /\ GotBarcode
    /\ \E d \in Dims : \E c1 \in DOMAIN reduced[d + 1] :
          /\ reduced[d + 1][c1] # <<>>
          /\ Len(triangular[d + 1][c1]) > 1
          /\ \E q \in DOMAIN barcode[d + 2] :
                barcode[d + 2][q][1] = idxs[d + 1][c1]

\* The representative the extractor assigns to a bar of dimension d: the
\* reduced column of the death simplex, or the triangular column of the
\* birth simplex of an essential bar.
RepOfBar(d, pair) ==
    IF pair[1] # -1
    THEN reduced[d][(CHOOSE c1 \in DOMAIN idxs[d] : idxs[d][c1] = pair[1])]
    ELSE triangular[d + 1][(CHOOSE c1 \in DOMAIN idxs[d + 1] :
                                idxs[d + 1][c1] = pair[2])]

\* C8: in every dimension the bars are in strictly decreasing order of
\* birth, and coho_reps[d][j] is the representative of barcode[d][j].
C8_SortedWithReps ==
    GotBarcode =>
        \A d \in Dims :
            /\ \A q \in 1..(Len(barcode[d + 1]) - 1) :
                  barcode[d + 1][q][2] > barcode[d + 1][q + 1][2]
            /\ Len(coho_reps[d + 1]) = Len(barcode[d + 1])
            /\ \A q \in DOMAIN barcode[d + 1] :
                  coho_reps[d + 1][q] = RepOfBar(d, barcode[d + 1][q])

\* A dimension whose bars were appended in an order that the sort changes:
\* a finite bar born before an essential bar of the same dimension.
C8_Witness ==
    /\ GotBarcode
    /\ \E d \in Dims : \E q \in 1..(Len(barcode[d + 1]) - 1) :
          /\ barcode[d + 1][q][1] = -1
          /\ barcode[d + 1][q + 1][1] # -1
          /\ coho_reps[d + 1][q] # coho_reps[d + 1][q + 1]

\* The two endpoints of a finite pair of indices have equal filtration values.
ZeroPersistence(pair) ==
    /\ pair[1] # -1
    /\ filtration_values[1][pair[1] + 1] = filtration_values[1][pair[2] + 1]

AllPairs(bc) == UNION {SeqToSet(bc[d1]) : d1 \in DOMAIN bc}

\* A returned pair of two finite entries that stand for equal filtration
\* values.
ReturnedZeroPersistence(pair) ==
    \/ /\ pair[1][1] = "value" /\ pair[2][1] = "value"
       /\ pair[1][2] = pair[2][2]
    \/ /\ pair[1][1] = "index" /\ pair[2][1] = "index"
       /\ pair[1][2] # -1 /\ pair[2][2] # -1
       /\ filtration_values[1][pair[1][2] + 1] = filtration_values[1][pair[2][2] + 1]

\* C7: with filtration values, no finite pair with two endpoints of equal
\* filtration value is in the ordinary or in the Steenrod barcode that
\* barcodes() returns.
C7_ZeroPersistenceSuppressed ==
    (pc = "done" /\ filtration_values # None) =>
        /\ \A pair \in AllPairs(barcode) \cup AllPairs(st_barcode) :
              ~ZeroPersistence(pair)
        /\ \A pair \in AllPairs(out_barcode) \cup AllPairs(out_st_barcode) :
              ~ReturnedZeroPersistence(pair)

\* A run with filtration values that found an ordinary pair and a finite
\* Steenrod pair of zero persistence, and returned.
C7_Witness ==
    /\ pc = "done"
    /\ filtration_values # None
    /\ \E d \in 1..(Len(reduced) - 1) : \E i1 \in DOMAIN reduced[d] :
          /\ reduced[d][i1] # <<>>
          /\ ZeroPersistence(<<DeathOf(idxs, d, i1 - 1),
                               BirthOf(idxs, reduced, d, i1 - 1)>>)
    /\ \E q \in DOMAIN st_barcode_dim : ZeroPersistence(st_barcode_dim[q])

\* The Steenrod images of the representatives of one dimension as the loop
\* of a single worker computes them, in order.
SequentialImages(d) ==
    [q \in DOMAIN coho_reps[d + 1] |->
        StSq(coho_reps[d + 1][q], filtration_by_dim[d + 1][2],
             spx2idx[d + k + 1], d + k + 1)]

WorkersDone == \A w1 \in DOMAIN cursor : cursor[w1] >= Len(slots)

\* C9: for every number of workers and every interleaving, no slot is
\* written twice, at the join every slot has been written by exactly one
\* worker, and the matrix handed on is the single-threaded one.
C9_WorkersPartition ==
    /\ pc = "sm_workers" =>
          /\ \A q \in DOMAIN writers : Len(writers[q]) <= 1
          /\ WorkersDone =>
                /\ \A q \in DOMAIN writers : Len(writers[q]) = 1
                /\ slots = SequentialImages(sm_dim)
    /\ (pc = "st_loop" /\ sb_dim = k) =>
          /\ Len(steenrod_matrix) = k + NumSourceDims(coho_reps, k)
          /\ \A d \in 0..(NumSourceDims(coho_reps, k) - 1) :
                steenrod_matrix[k + d + 1] = SequentialImages(d)

\* Two workers have filled at least three slots, one of them not empty.
C9_Witness ==
    /\ pc = "sm_workers"
    /\ n_jobs >= 2
    /\ WorkersDone
    /\ Len(slots) >= 3
    /\ \E q \in DOMAIN slots : slots[q] # <<>>
    /\ \E q1, q2 \in DOMAIN writers : writers[q1] # writers[q2]

\* The input has no simplex at all, or none in some dimension of 0..maxdim.
DegenerateInput ==
    \/ filtration = <<>>
    \/ /\ maxdim # None
       /\ \E d \in 0..maxdim[1] :
             \A p \in DOMAIN filtration : Cardinality(filtration[p]) - 1 # d

\* C10: barcodes() on an empty filtration, or with a dimension of 0..maxdim
\* without simplices, does not end in an error.
C10_DegenerateInputNoError ==
    DegenerateInput => pc # "error"

---------------------------------------------------------------------------
\* C11: barcodes() called with a non-positive k ends in a fatal error and
\* returns no barcode: no run that returns has k <= 0.
C11_NonPositiveKReturnsNothing ==
    pc = "done" => k > 0

---------------------------------------------------------------------------
\* The death entry of a returned pair: entry 0 of a relative pair, entry 1
\* of an absolute pair (docstring of barcodes, lines 650-658).
DeathEntry(pair) == IF absolute THEN pair[2] ELSE pair[1]

ValuesReturned ==
    pc = "done" /\ filtration_values # None /\ return_filtration_values

\* The bars of dimension d1 - 1 of a returned barcode whose death is +infinity
PlusInfBars(out, d1) == {q \in DOMAIN out[d1] : DeathEntry(out[d1][q]) = PlusInf}

\* The essential bars (death = -1) of dimension d1 - 1 of a computed barcode
EssentialBars(bc, d1) == {q \in DOMAIN bc[d1] : bc[d1][q][1] = -1}

EssentialAsPlusInf(bc, out) ==
    \A d1 \in DOMAIN bc :
        Cardinality(PlusInfBars(out, d1)) = Cardinality(EssentialBars(bc, d1))

\* C12: when births and deaths are returned as filtration values, every
\* essential bar of the ordinary and of the Steenrod barcode has death
\* +infinity, in the relative and in the absolute output.
C12_EssentialDeathPlusInf ==
    ValuesReturned =>
        /\ EssentialAsPlusInf(barcode, out_barcode)
        /\ EssentialAsPlusInf(st_barcode, out_st_barcode)

---------------------------------------------------------------------------
\* C13 as stated: after get_reduced_triangular returns, every index stored
\* in triangular[d][j] is <= j.
C13_EntriesAtMostColumn ==
    GotReducedTriangular =>
        \A d \in Dims : \A i1 \in DOMAIN triangular[d + 1] :
            \A q \in DOMAIN triangular[d + 1][i1] :
                triangular[d + 1][i1][q] <= i1 - 1

\* C13, amended: the columns are reduced from the last to the first, so
\* column j of V only receives columns i >= j: after get_reduced_triangular
\* returns, every index stored in triangular[d][j] is >= j (and is an
\* in-dimension index of dimension d).
C13_EntriesAtLeastColumn ==
    GotReducedTriangular =>
        \A d \in Dims : \A i1 \in DOMAIN triangular[d + 1] :
            \A q \in DOMAIN triangular[d + 1][i1] :
                /\ triangular[d + 1][i1][q] >= i1 - 1
                /\ triangular[d + 1][i1][q] < Len(triangular[d + 1])

\* A column of V that received a later column by an addition of
\* _twist_reduction, and a column patched after clearing, both with an
\* entry beyond the diagonal.
C13_Witness ==
    /\ GotReducedTriangular
    /\ \E d \in Dims : \E i1 \in DOMAIN triangular[d + 1] :
          /\ (i1 - 1) \notin ClearedCols(d)
          /\ Len(triangular[d + 1][i1]) > 1
    /\ \E d \in Dims : \E i \in ClearedCols(d) :
          Len(triangular[d + 1][i + 1]) > 1

---------------------------------------------------------------------------
\* The pivot lookup of all the ordinary columns of one reduced matrix: row
\* r (0-based, at position r + 1) to the column that starts at r, or -1.
PivotsOfReduced(red_prev, n_rows) ==
    [r1 \in 1..n_rows |->
        IF \E c1 \in DOMAIN red_prev : HighestOne(red_prev[c1]) = r1 - 1
        THEN (CHOOSE c1 \in DOMAIN red_prev : HighestOne(red_prev[c1]) = r1 - 1) - 1
        ELSE -1]

\* A Steenrod column of dimension d reduced against all the ordinary
\* columns of dimension d - 1.
ReducedAgainstOrdinary(col, d) ==
    ReduceStCol(col, reduced[d], PivotsOfReduced(reduced[d], Len(idxs[d + 1])))

\* The dimensions d >= k whose Steenrod bars have been computed
StDimsComputed ==
    IF pc \in {"st_loop", "st_steps", "done"}
    THEN {d \in k..(Len(st_barcode) - 1) : d >= 1}
    ELSE {}

\* C14: for k >= 1 and d >= k, a class is reported as an essential
\* Steenrod bar (-1, birth) only if its Steenrod column is still nonempty
\* after reduction against all ordinary columns of dimension d - 1; a
\* representative with an empty Steenrod image yields no Steenrod bar.
C14_EssentialOnlyIfNonemptyColumn ==
    k >= 1 =>
        \A d \in StDimsComputed : \A q \in DOMAIN barcode[d - k + 1] :
            LET birth == barcode[d - k + 1][q][2]
                col == steenrod_matrix[d + 1][q]
            IN  /\ (\E p \in DOMAIN st_barcode[d + 1] :
                        st_barcode[d + 1][p] = <<-1, birth>>)
                      => ReducedAgainstOrdinary(col, d) # <<>>
                /\ col = <<>> =>
                      \A p \in DOMAIN st_barcode[d + 1] :
                          st_barcode[d + 1][p][2] # birth

---------------------------------------------------------------------------
\* The pairs of simplices of a representative of degree d whose union is a
\* (d + k)-simplex of the filtration: the pairs the parity rule is asked about.
CandidatePairs(rep, d) ==
    LET tups_dim == filtration_by_dim[d + 1][2]
    IN  {pr \in (DOMAIN rep) \X (DOMAIN rep) :
            /\ pr[1] < pr[2]
            /\ sorted(SeqToSet(tups_dim[rep[pr[1]] + 1])
                        \cup SeqToSet(tups_dim[rep[pr[2]] + 1]))
                  \in DOMAIN spx2idx[d + k + 1]}

\* C15: for a representative of degree d and k > d the Steenrod matrix
\* builder produces an empty image column, in the finished rows of the
\* Steenrod matrix and in the slots the workers are writing.
C15_EmptyImageAboveDegree ==
    /\ \A m \in DOMAIN steenrod_matrix :
          (m - 1 - k >= 0 /\ k > m - 1 - k) =>
              \A q \in DOMAIN steenrod_matrix[m] : steenrod_matrix[m][q] = <<>>
    /\ (pc = "sm_workers" /\ k > sm_dim) =>
              \A q \in DOMAIN slots : slots[q] = <<>>

\* A finished Steenrod matrix for k = 2 in which a representative of degree
\* d = 1 < k holds a pair of (disjoint) edges spanning a 3-simplex of the
\* filtration, the pair that the parity rule turns down.
C15_Witness ==
    /\ pc = "st_loop"
    /\ k = 2
    /\ Len(steenrod_matrix) = 4
    /\ \E q \in DOMAIN coho_reps[2] : CandidatePairs(coho_reps[2][q], 1) # {}

---------------------------------------------------------------------------
\* C16: for every k >= 1 the Steenrod barcode has exactly one array per
\* dimension 0..maxdim, as many as the ordinary barcode.
C16_OneArrayPerDimension ==
    (k >= 1 /\ pc = "done") =>
        /\ Len(st_barcode) = maxdim_of + 1
        /\ Len(out_st_barcode) = Len(out_barcode)

---------------------------------------------------------------------------
\* C17: every representative returned by get_barcode_and_coho_reps is a
\* cocycle (the GF(2) sum of the original coboundary columns of its
\* dimension over its indices is empty), for finite and for essential bars,
\* and its smallest index is the in-dimension position of the birth simplex
\* of its bar.
C17_RepsAreCocycles ==
    GotBarcode =>
        \A d \in Dims : \A q \in DOMAIN coho_reps[d + 1] :
            LET rep == coho_reps[d + 1][q]
            IN  /\ rep # <<>>
                /\ StrictlyAscending(rep)
                /\ Gf2Sum(OriginalCoboundary(d), rep) = {}
                /\ idxs[d + 1][Min(SeqToSet(rep)) + 1] = barcode[d + 1][q][2]

\* Below the top dimension, a finite bar and an essential bar whose
\* representatives hold several simplices with cofaces.
C17_Witness ==
    /\ GotBarcode
    /\ \E d \in Dims : \E q \in DOMAIN coho_reps[d + 1] :
          /\ d + 1 < Len(filtration_by_dim)
          /\ barcode[d + 1][q][1] # -1
          /\ Len(coho_reps[d + 1][q]) > 1
          /\ OriginalCoboundary(d)[coho_reps[d + 1][q][1] + 1] # <<>>
    /\ \E d \in Dims : \E q \in DOMAIN coho_reps[d + 1] :
          /\ d + 1 < Len(filtration_by_dim)
          /\ barcode[d + 1][q][1] = -1
          /\ Len(coho_reps[d + 1][q]) > 1
          /\ OriginalCoboundary(d)[coho_reps[d + 1][q][1] + 1] # <<>>

---------------------------------------------------------------------------
\* C18: in _steenrod_barcode_single_dim the births cursor j is a valid
\* position of births_dim whenever births_dim[j] is read (line 490), that
\* is at every iteration of the loop over the indices of dimension d - 1.
C18_BirthsCursorInBounds ==
    (pc = "st_steps" /\ st_i < Len(idxs[sb_dim])) =>
        (0 <= st_j /\ st_j < Len(barcode[sb_dim - k + 1]))

=============================================================================
